---- MODULE Spec2Model ----
(***************************************************************************)
(* State-machine model of the streaming chat page (the Home component):    *)
(* sendMessage with its fetch / read loop / line loop, the delayed iframe  *)
(* refreshes, updateIframeContent with its blob URLs, and the full-screen  *)
(* preview toggles.                                                        *)
(*                                                                         *)
(* JavaScript runs each task to completion: one action is one task (an     *)
(* event handler, the continuation of an await, a timer callback).  The    *)
(* line loop of one chunk is shown line by line (ProcessLine); while lines *)
(* of a chunk are pending no other action is enabled, so the extra states  *)
(* are the intermediate states of that one task.  React commits the state  *)
(* set by a task before the next task runs: every action ends with the     *)
(* commit (Commit), which mounts and unmounts the iframes.                 *)
(***************************************************************************)
EXTENDS Integers, Sequences, FiniteSets, TLC

\* ------------------------------------------------------------- bounds
MaxSends == 2      \* accepted sendMessage calls in one behaviour
MaxRecords == 2    \* records the server writes in one behaviour
MaxClicks == 3     \* full-screen / view-mode clicks in one behaviour

\* ------------------------------------------------------------- program constants
HtmlDelay == 50        \* setTimeout of the html_chunk refresh
CompleteDelay == 100   \* setTimeout of the complete refresh
ToggleDelay == 100     \* setTimeout of toggleFullScreenPreview
RevokeDelay == 1000    \* setTimeout of URL.revokeObjectURL

\* ------------------------------------------------------------- values
ErrNotice == "Sorry, I encountered an error. Please make sure the backend server is running on port 8000."
Inputs == {"", " ", "u1"}

\* String.prototype.trim on the inputs above
Trim(s) == IF s = " " THEN "" ELSE s

\* A test for undefined only, which takes the empty string for a payload.
TruthyNotUndefined(s) == s # "absent"

\* JavaScript truthiness of a string-or-undefined ("absent" is undefined)
Truthy(s) == s \notin {"", "absent"}

\* The JSON payloads the server may send.  Fields a payload does not carry
\* are "absent" (undefined) / FALSE.
Events == <<
  [type |-> "text_chunk",    text |-> "t1", conv |-> "c1", html |-> "absent", ui |-> FALSE],
  [type |-> "text_chunk",    text |-> "t2", conv |-> "c2", html |-> "absent", ui |-> FALSE],
  [type |-> "html_chunk",    text |-> "absent", conv |-> "absent", html |-> "h1", ui |-> FALSE],
  [type |-> "html_complete", text |-> "absent", conv |-> "absent", html |-> "h2", ui |-> FALSE],
  [type |-> "complete",      text |-> "t3", conv |-> "c1", html |-> "h2", ui |-> TRUE],
  [type |-> "complete",      text |-> "t1", conv |-> "c2", html |-> "absent", ui |-> FALSE],
  [type |-> "complete",      text |-> "t3", conv |-> "c1", html |-> "", ui |-> TRUE],
  [type |-> "ping",          text |-> "absent", conv |-> "absent", html |-> "absent", ui |-> FALSE] >>

EvIds == DOMAIN Events

\* ------------------------------------------------------------- the wire
\* The response body as a sequence of tokens, each a run of bytes that the
\* transport may separate from its neighbours:
\*   MK      the marker 'data: '
\*   JH(i)   the first half of the JSON text of Events[i]
\*   JT(i)   the second half of the JSON text of Events[i]
\*   XX      text that is neither (a comment line, a keep-alive)
\*   NL      the newline '\n'
MK == [k |-> "mk", i |-> 0]
XX == [k |-> "xx", i |-> 0]
NL == [k |-> "nl", i |-> 0]
JH(i) == [k |-> "jh", i |-> i]
JT(i) == [k |-> "jt", i |-> i]

\* What the server can write as one record.
RecordKinds == {"event", "badjson", "nomarker"}
RecordTokens(kind, i) ==
  CASE kind = "event"    -> <<MK, JH(i), JT(i), NL>>
    [] kind = "badjson"  -> <<MK, JH(i), NL>>
    [] kind = "nomarker" -> <<XX, NL>>

\* chunk.split('\n')
RECURSIVE Split(_)
Split(s) ==
  IF \A n \in 1..Len(s) : s[n] # NL
  THEN <<s>>
  ELSE LET n == CHOOSE m \in 1..Len(s) : s[m] = NL /\ \A l \in 1..(m-1) : s[l] # NL
       IN  <<SubSeq(s, 1, n-1)>> \o Split(SubSeq(s, n+1, Len(s)))

\* line.startsWith('data: ')
StartsWithData(line) == Len(line) >= 1 /\ line[1] = MK

\* line.slice(6)
Slice6(line) == Tail(line)

\* JSON.parse: the index of the parsed payload, 0 when it throws
JSONparse(body) ==
  IF Len(body) = 2 /\ body[1].k = "jh" /\ body[2].k = "jt" /\ body[1].i = body[2].i
  THEN body[1].i
  ELSE 0

\* A chain whose second test is a plain else: every other type takes the
\* html branch.
BranchElseFallsThrough(type) ==
  CASE type = "text_chunk" -> "text"
    [] type = "complete" -> "complete"
    [] OTHER -> "html"

\* The branch of the if / else-if chain a parsed payload takes.
Branch(type) ==
  CASE type = "text_chunk" -> "text"
    [] type \in {"html_chunk", "html_complete"} -> "html"
    [] type = "complete" -> "complete"
    [] OTHER -> "none"

\* What the line loop does with one line: "skip" for a line without the
\* marker, "throw" for a parse error (caught and logged), else the branch.
LineKind(line) ==
  IF ~StartsWithData(line) THEN "skip"
  ELSE IF JSONparse(Slice6(line)) = 0 THEN "throw"
  ELSE Branch(Events[JSONparse(Slice6(line))].type)

LineData(line) == Events[JSONparse(Slice6(line))]

\* ------------------------------------------------------------- transcript
UserMessage(id, text, e) ==
  [id |-> id, role |-> "user", content |-> text, ui |-> FALSE, ex |-> e]
StreamingMessage(id, e) ==
  [id |-> id, role |-> "assistant", content |-> "", ui |-> FALSE, ex |-> e]
ErrorMessage(id, e) ==
  [id |-> id, role |-> "assistant", content |-> ErrNotice, ui |-> FALSE, ex |-> e]

\* A map that fills the content only while it is empty.
SetContentFirstWins(msgs, sid, text) ==
  [n \in DOMAIN msgs |-> IF msgs[n].id = sid /\ msgs[n].content = ""
                         THEN [msgs[n] EXCEPT !.content = text]
                         ELSE msgs[n]]

\* prev.map(msg => msg.id === sid ? {...msg, content} : msg)
SetContent(msgs, sid, text) ==
  [n \in DOMAIN msgs |-> IF msgs[n].id = sid THEN [msgs[n] EXCEPT !.content = text]
                                             ELSE msgs[n]]
\* prev.map(msg => msg.id === sid ? {...msg, is_generated_ui} : msg)
SetUi(msgs, sid, flag) ==
  [n \in DOMAIN msgs |-> IF msgs[n].id = sid THEN [msgs[n] EXCEPT !.ui = flag]
                                             ELSE msgs[n]]

\* A setter that keeps a payload already stored.
setGeneratedHtmlOnce(prev, p) == IF Truthy(prev) THEN prev ELSE p

\* setGeneratedHtml(p): the state becomes p, whatever it was
setGeneratedHtml(prev, p) == p

\* The React state the line loop writes, as one record, and the effect of
\* one line on it (sid is streamingMessageId).
LineStep(st, line, sid) ==
  LET kind == LineKind(line)
      data == LineData(line)
  IN  CASE kind = "text" ->
             [st EXCEPT !.messages = SetContent(st.messages, sid, data.text)]
        [] kind = "html" ->
             [st EXCEPT !.generatedHtml = setGeneratedHtml(@, data.html),
                        !.messages = SetUi(st.messages, sid, TRUE)]
        [] kind = "complete" ->
             [st EXCEPT !.conversationId = data.conv,
                        !.generatedHtml = IF Truthy(data.html)
                                          THEN setGeneratedHtml(@, data.html) ELSE @,
                        !.messages = SetUi(SetContent(st.messages, sid, data.text),
                                           sid, data.ui)]
        [] OTHER -> st

\* for (const line of lines) { ... break on complete }
RECURSIVE LinesFold(_, _, _)
LinesFold(st, lines, sid) ==
  IF lines = <<>> THEN st
  ELSE IF LineKind(Head(lines)) = "complete" THEN LineStep(st, Head(lines), sid)
  ELSE LinesFold(LineStep(st, Head(lines), sid), Tail(lines), sid)

\* ------------------------------------------------------------- state
VARIABLES
  messages,           \* useState<Message[]>: the transcript
  input,              \* useState: the text box
  loading,            \* useState
  isStreaming,        \* useState
  conversationId,     \* useState
  generatedHtml,      \* useState: the artifact payload
  fullScreenPreview,  \* useState
  viewMode,           \* useState: "render" or "code"
  now,                \* the last value Date.now() returned
  exch,               \* the sendMessage invocations: locals, position, response
  timers,             \* pending setTimeout callbacks, earliest deadline first
  frame,              \* what each iframe shows: "unmounted", "blank" or a payload
  urlLive,            \* blob URLs created and not yet revoked
  loads,              \* per iframe, the blob URL it is loading from (0: none)
  nextUrl,            \* the number of blob URLs created so far
  clicks,             \* preview clicks so far (bounds the behaviour)
  nrec,               \* records the server wrote so far (bounds the behaviour)
  version,            \* setGeneratedHtml calls so far (the code keeps no counter)
  lastOp              \* the last step a sendMessage invocation took

vars == <<messages, input, loading, isStreaming, conversationId, generatedHtml,
          fullScreenPreview, viewMode, now, exch, timers, frame, urlLive, loads,
          nextUrl, clicks, nrec, version, lastOp>>

Surfaces == {"inline", "full"}

\* The JSX conditions under which each iframe element exists.
Mounted(s, html, fs, vm) ==
  IF s = "inline" THEN Truthy(html) ELSE fs /\ vm = "render"

\* The commit after a task: an iframe whose condition became false is
\* removed, one whose condition became true is a new, empty element.
Commit(fr, html, fs, vm) ==
  [s \in Surfaces |->
     IF ~Mounted(s, html, fs, vm) THEN "unmounted"
     ELSE IF fr[s] = "unmounted" THEN "blank"
     ELSE fr[s]]

\* An iframe that is removed stops loading.
CommitLoads(ld, fr) == [s \in Surfaces |-> IF fr[s] = "unmounted" THEN 0 ELSE ld[s]]

InFlight(e) == exch[e].pc \in {"fetching", "reading"}

\* A task is in the middle of the line loop of a chunk.
Busy == \E e \in DOMAIN exch : exch[e].lines # <<>>

\* Date.now(): the clock never goes back, and two successive reads may
\* return the same millisecond.  Only the equality of two ids matters, so
\* the first read returns 1 and a later one the last value or the next.
DateNow == IF now = 0 THEN {1} ELSE {now, now + 1}
\* Date.now() when every read falls into a later millisecond than the last.
DateLater == {now + 1}

Init ==
  /\ messages = <<>>
  /\ input = ""
  /\ loading = FALSE
  /\ isStreaming = FALSE
  /\ conversationId = ""
  /\ generatedHtml = ""
  /\ fullScreenPreview = FALSE
  /\ viewMode = "render"
  /\ now = 0
  /\ exch = <<>>
  /\ timers = <<>>
  /\ frame = [s \in Surfaces |-> "unmounted"]
  /\ urlLive = {}
  /\ loads = [s \in Surfaces |-> 0]
  /\ nextUrl = 0
  /\ clicks = 0
  /\ nrec = 0
  /\ version = 0
  /\ lastOp = "init"

\* ------------------------------------------------------------- timers
Delay(t) ==
  CASE t.kind = "html" -> HtmlDelay
    [] t.kind = "complete" -> CompleteDelay
    [] t.kind = "toggle" -> ToggleDelay
    [] t.kind = "revoke" -> RevokeDelay

HtmlTimer(e) == [kind |-> "html", ex |-> e, html |-> "absent", url |-> 0]
CompleteTimer(p) == [kind |-> "complete", ex |-> 0, html |-> p, url |-> 0]
ToggleTimer(p) == [kind |-> "toggle", ex |-> 0, html |-> p, url |-> 0]
RevokeTimer(u) == [kind |-> "revoke", ex |-> 0, html |-> "absent", url |-> u]

\* Where a timer set now can stand in the queue: behind every pending timer
\* whose delay is not longer (set earlier, it is due earlier), and before or
\* behind a pending timer with a longer delay, as the time since then decides.
Slots(tms, t) ==
  {p \in 0..Len(tms) : \A n \in 1..Len(tms) : Delay(tms[n]) <= Delay(t) => n <= p}

InsertAt(tms, t, p) == SubSeq(tms, 1, p) \o <<t>> \o SubSeq(tms, p + 1, Len(tms))

\* ------------------------------------------------------------- sendMessage
\* A sendMessage without its first line.
SendGuardMissing == FALSE

\* if (!input.trim() || loading || isStreaming) return
SendRejected == Trim(input) = "" \/ loading \/ isStreaming

\* The locals and the position of one sendMessage invocation, the response
\* body in flight (wire, closed), and what the claims need of its history:
\* served (the server wrote a complete), valid (every record written is a
\* well-formed event and none follows a complete), applied (the payload of the
\* last complete the line loop applied, 0 for none), ref (the state the line
\* loop reaches when every record arrives as a chunk of its own), sent (the
\* payloads of the well-formed records written so far, in order).
NoRef == [messages |-> <<>>, generatedHtml |-> "", conversationId |-> ""]

\* What is left of an invocation that returned: its position, the local the
\* pending html_chunk callbacks still read, and applied.
Returned(x, pc) ==
  [x EXCEPT !.pc = pc, !.wire = <<>>, !.closed = FALSE, !.lines = <<>>,
            !.valid = TRUE, !.served = FALSE, !.ref = NoRef, !.reqConv = "",
            !.sent = <<>>]

NewExchange(conv) ==
  [pc |-> "fetching", sid |-> 0, currentHtml |-> "", reqConv |-> conv,
   wire |-> <<>>, closed |-> FALSE, lines |-> <<>>,
   valid |-> TRUE, served |-> FALSE, applied |-> 0, ref |-> NoRef, sent |-> <<>>]

\* A sendMessage that appends the placeholder together with the user message,
\* before it calls fetch.
sendMessagePlaceholderFirst(id) ==
  /\ ~Busy
  /\ IF SendRejected
     THEN UNCHANGED <<messages, input, loading, isStreaming, exch, now, lastOp>>
     ELSE /\ Len(exch) < MaxSends
          /\ now' = id
          /\ messages' = Append(Append(messages, UserMessage(id, input, Len(exch) + 1)),
                                StreamingMessage(id, Len(exch) + 1))
          /\ input' = ""
          /\ loading' = TRUE
          /\ isStreaming' = TRUE
          /\ exch' = Append(exch, NewExchange(conversationId))
          /\ lastOp' = "send"
  /\ UNCHANGED <<conversationId, generatedHtml, fullScreenPreview, viewMode,
                 timers, frame, urlLive, nextUrl, clicks, nrec, version, loads>>

\* The synchronous part of sendMessage, up to the await of fetch; id is what
\* Date.now() returns.
sendMessage(id) ==
  /\ ~Busy
  /\ IF SendRejected
     THEN UNCHANGED <<messages, input, loading, isStreaming, exch, now, lastOp>>
     ELSE /\ Len(exch) < MaxSends
          /\ now' = id
          /\ messages' = Append(messages, UserMessage(id, input, Len(exch) + 1))
          /\ input' = ""
          /\ loading' = TRUE
          /\ isStreaming' = TRUE
          /\ exch' = Append(exch, NewExchange(conversationId))
          /\ lastOp' = "send"
  /\ UNCHANGED <<conversationId, generatedHtml, fullScreenPreview, viewMode,
                 timers, frame, urlLive, nextUrl, clicks, nrec, version, loads>>

\* onChange of the text box, which is disabled while loading || isStreaming
TypeInput(v) ==
  /\ ~Busy
  /\ ~(loading \/ isStreaming)
  /\ Len(exch) < MaxSends
  /\ v # input
  /\ input' = v
  /\ UNCHANGED <<messages, loading, isStreaming, conversationId, generatedHtml,
                 fullScreenPreview, viewMode, now, exch, timers, frame, urlLive,
                 nextUrl, clicks, nrec, lastOp, version, loads>>

\* A catch that only logs.
CatchDropsNotice(msgs, id, e) == msgs

\* catch: the error notice is appended
Catch(msgs, id, e) == Append(msgs, ErrorMessage(id, e))

\* catch and finally of sendMessage, for invocation e
Fail(e, how, id) ==
  /\ now' = id
  /\ messages' = Catch(messages, id, e)
  /\ loading' = FALSE
  /\ isStreaming' = FALSE
  /\ exch' = [exch EXCEPT ![e] = Returned(@, "failed")]
  /\ lastOp' = how
  /\ UNCHANGED <<input, conversationId, generatedHtml, fullScreenPreview, viewMode,
                 timers, frame, urlLive, nextUrl, clicks, nrec, version, loads>>

\* fetch rejects, or the response is not ok, or it has no body
FetchFail(e, id) ==
  /\ ~Busy
  /\ exch[e].pc = "fetching"
  /\ Fail(e, "fetchfail", id)

\* fetch resolves with an ok response and a body: the placeholder is appended
FetchResolve(e, id) ==
  /\ ~Busy
  /\ exch[e].pc = "fetching"
  /\ now' = id
  /\ messages' = Append(messages, StreamingMessage(id, e))
  /\ exch' = [exch EXCEPT ![e].pc = "reading", ![e].sid = id,
                          ![e].ref = [messages |-> messages',
                                      generatedHtml |-> generatedHtml,
                                      conversationId |-> conversationId]]
  /\ lastOp' = "open"
  /\ UNCHANGED <<input, loading, isStreaming, conversationId, generatedHtml,
                 fullScreenPreview, viewMode, timers, frame, urlLive, nextUrl, clicks, nrec, version, loads>>

\* The server writes one more record of the response.  ref follows what the
\* line loop makes of the records when each arrives as a chunk of its own.
ServerEmit(e, kind, i) ==
  /\ ~Busy
  /\ exch[e].pc = "reading"
  /\ ~exch[e].closed
  /\ nrec < MaxRecords
  /\ kind = "event" \/ i = 1
  /\ nrec' = nrec + 1
  /\ exch' = [exch EXCEPT
       ![e].wire = @ \o RecordTokens(kind, i),
       ![e].valid = @ /\ kind = "event" /\ ~exch[e].served,
       ![e].served = @ \/ (kind = "event" /\ Events[i].type = "complete"),
       ![e].sent = IF kind = "event" THEN Append(@, i) ELSE @,
       ![e].ref = LinesFold(@, Split(RecordTokens(kind, i)), exch[e].sid)]
  /\ UNCHANGED <<messages, input, loading, isStreaming, conversationId, generatedHtml,
                 fullScreenPreview, viewMode, now, timers, frame, urlLive, nextUrl,
                 clicks, lastOp, version, loads>>

\* The server ends the response.
ServerClose(e) ==
  /\ ~Busy
  /\ exch[e].pc = "reading"
  /\ ~exch[e].closed
  /\ exch' = [exch EXCEPT ![e].closed = TRUE]
  /\ UNCHANGED <<messages, input, loading, isStreaming, conversationId, generatedHtml,
                 fullScreenPreview, viewMode, now, timers, frame, urlLive, nextUrl,
                 clicks, nrec, lastOp, version, loads>>

\* reader.read() resolves with the next k tokens: decode, split into lines
ReadChunk(e, k) ==
  /\ ~Busy
  /\ exch[e].pc = "reading"
  /\ k \in 1..Len(exch[e].wire)
  /\ exch' = [exch EXCEPT ![e].lines = Split(SubSeq(exch[e].wire, 1, k)),
                          ![e].wire = SubSeq(@, k + 1, Len(@))]
  /\ UNCHANGED <<messages, input, loading, isStreaming, conversationId, generatedHtml,
                 fullScreenPreview, viewMode, now, timers, frame, urlLive, nextUrl,
                 clicks, nrec, lastOp, version, loads>>

\* One pass of the for loop over the lines of the chunk.  commit tells
\* whether React has rendered the state this pass set before the next task
\* runs, or the render is still to come (Render).
LinePass(e, commit) ==
  /\ exch[e].lines # <<>>
  /\ LET line == Head(exch[e].lines)
         kind == LineKind(line)
         st == LineStep([messages |-> messages, generatedHtml |-> generatedHtml,
                         conversationId |-> conversationId], line, exch[e].sid)
     IN  /\ messages' = st.messages
         /\ generatedHtml' = st.generatedHtml
         /\ conversationId' = st.conversationId
         /\ exch' = [exch EXCEPT
              ![e].lines = IF kind = "complete" THEN <<>> ELSE Tail(@),
              ![e].currentHtml = IF kind = "html" THEN LineData(line).html ELSE @,
              ![e].applied = IF kind = "complete" THEN JSONparse(Slice6(line)) ELSE @]
         /\ IF kind = "html"
            THEN \E p \in Slots(timers, HtmlTimer(e)) :
                   timers' = InsertAt(timers, HtmlTimer(e), p)
            ELSE IF kind = "complete" /\ Truthy(LineData(line).html)
            THEN \E p \in Slots(timers, CompleteTimer(LineData(line).html)) :
                   timers' = InsertAt(timers, CompleteTimer(LineData(line).html), p)
            ELSE timers' = timers
         /\ version' = IF kind = "html" \/ (kind = "complete" /\ Truthy(LineData(line).html))
                       THEN version + 1 ELSE version
         /\ frame' = IF commit
                     THEN Commit(frame, st.generatedHtml, fullScreenPreview, viewMode)
                     ELSE frame
         /\ loads' = CommitLoads(loads, frame')
         /\ lastOp' = kind
  /\ UNCHANGED <<input, loading, isStreaming, fullScreenPreview, viewMode, now,
                 urlLive, nextUrl, clicks, nrec>>

\* The pass with its render done before the next task.
ProcessLine(e) == LinePass(e, TRUE)

\* The pass whose render is still to come.
ProcessLineLate(e) == LinePass(e, FALSE)

\* The iframes are as the last rendered state asks.
Rendered == frame = Commit(frame, generatedHtml, fullScreenPreview, viewMode)

\* React renders and commits the state set by earlier tasks: iframes are
\* mounted and unmounted and the refs follow.
Render ==
  /\ ~Busy
  /\ ~Rendered
  /\ frame' = Commit(frame, generatedHtml, fullScreenPreview, viewMode)
  /\ loads' = CommitLoads(loads, frame')
  /\ UNCHANGED <<messages, input, loading, isStreaming, conversationId, generatedHtml,
                 fullScreenPreview, viewMode, now, exch, timers, urlLive, nextUrl,
                 clicks, nrec, version, lastOp>>

\* A read loop that takes the end of the stream for a failure.
ReadDoneAsError(e) ==
  /\ ~Busy
  /\ exch[e].pc = "reading"
  /\ exch[e].closed
  /\ exch[e].wire = <<>>
  /\ Fail(e, "done", now)

\* A sendMessage without its finally: the loop ends and the flags stay set.
ReadDoneNoFinally(e) ==
  /\ ~Busy
  /\ exch[e].pc = "reading"
  /\ exch[e].closed
  /\ exch[e].wire = <<>>
  /\ exch' = [exch EXCEPT ![e] = Returned(@, "done")]
  /\ lastOp' = "done"
  /\ UNCHANGED <<messages, input, loading, isStreaming, conversationId, generatedHtml,
                 fullScreenPreview, viewMode, now, timers, frame, urlLive, nextUrl,
                 clicks, nrec, version, loads>>

\* reader.read() resolves with done: the while loop ends, finally runs
ReadDone(e) ==
  /\ ~Busy
  /\ exch[e].pc = "reading"
  /\ exch[e].closed
  /\ exch[e].wire = <<>>
  /\ loading' = FALSE
  /\ isStreaming' = FALSE
  /\ exch' = [exch EXCEPT ![e] = Returned(@, "done")]
  /\ lastOp' = "done"
  /\ UNCHANGED <<messages, input, conversationId, generatedHtml, fullScreenPreview,
                 viewMode, now, timers, frame, urlLive, nextUrl, clicks, nrec, version, loads>>

\* reader.read() rejects (the connection breaks mid-stream)
ReadError(e, id) ==
  /\ ~Busy
  /\ exch[e].pc = "reading"
  /\ Fail(e, "readerror", id)

\* ------------------------------------------------------------- iframes
\* updateIframeContent(ref.current, htmlContent) on the surface state
\* S = [frame, urlLive, loads, nextUrl, revokes]; revokes collects the revoke
\* timers the call sets.  outcome is "ok": the iframe starts to load the
\* document from the new URL; or "throws": the assignment iframe.src = url
\* throws and the catch block writes the document directly.
updateIframeContent(S, s, p, outcome) ==
  IF S.frame[s] = "unmounted" THEN S
  ELSE LET u == S.nextUrl + 1
       IN  [frame   |-> [S.frame EXCEPT ![s] = p],
            urlLive |-> S.urlLive \cup {u},
            loads   |-> [S.loads EXCEPT ![s] = IF outcome = "ok" THEN u ELSE 0],
            nextUrl |-> u,
            revokes |-> IF outcome = "ok" THEN Append(S.revokes, RevokeTimer(u))
                                          ELSE S.revokes]

\* The payload a refresh callback passes: the html_chunk callback reads the
\* local currentHtml of its sendMessage when it runs; the others captured it.
TimerPayload(t) == IF t.kind = "html" THEN exch[t.ex].currentHtml ELSE t.html

\* The surfaces a refresh callback updates, in the order of its calls.
TimerTargets(t) == IF t.kind = "toggle" THEN <<"full">> ELSE <<"inline", "full">>

RECURSIVE UpdateAll(_, _, _, _)
UpdateAll(S, targets, p, outcomes) ==
  IF targets = <<>> THEN S
  ELSE UpdateAll(updateIframeContent(S, Head(targets), p, outcomes[Head(targets)]),
                 Tail(targets), p, outcomes)

\* The timer at the head of the queue is due and its callback runs.
FireTimer(outcomes) ==
  /\ ~Busy
  /\ timers # <<>>
  /\ LET t == Head(timers)
     IN  IF t.kind = "revoke"
         THEN /\ urlLive' = urlLive \ {t.url}
              /\ timers' = Tail(timers)
              /\ UNCHANGED <<frame, nextUrl, loads>>
         ELSE LET S == UpdateAll([frame |-> frame, urlLive |-> urlLive, loads |-> loads,
                                  nextUrl |-> nextUrl, revokes |-> <<>>],
                                 TimerTargets(t), TimerPayload(t), outcomes)
              IN  /\ frame' = S.frame
                  /\ urlLive' = S.urlLive
                  /\ loads' = S.loads
                  /\ nextUrl' = S.nextUrl
                  /\ timers' = Tail(timers) \o S.revokes
  /\ UNCHANGED <<messages, input, loading, isStreaming, conversationId, generatedHtml,
                 fullScreenPreview, viewMode, now, exch, clicks, nrec, lastOp, version>>

\* An iframe finishes loading its document (its load event).
IframeLoaded(s) ==
  /\ ~Busy
  /\ loads[s] # 0
  /\ loads' = [loads EXCEPT ![s] = 0]
  /\ UNCHANGED <<messages, input, loading, isStreaming, conversationId, generatedHtml,
                 fullScreenPreview, viewMode, now, exch, timers, frame, urlLive,
                 nextUrl, clicks, nrec, version, lastOp>>

AllOk == [s \in Surfaces |-> "ok"]
Outcomes == [Surfaces -> {"ok", "throws"}]

\* ------------------------------------------------------------- preview
\* The Full Screen button exists when generatedHtml is set, the Close button
\* when the modal is open.
toggleFullScreenPreview ==
  /\ ~Busy
  /\ clicks < MaxClicks
  /\ Truthy(generatedHtml) \/ fullScreenPreview
  /\ fullScreenPreview' = ~fullScreenPreview
  /\ IF ~fullScreenPreview /\ Truthy(generatedHtml)
     THEN \E p \in Slots(timers, ToggleTimer(generatedHtml)) :
            timers' = InsertAt(timers, ToggleTimer(generatedHtml), p)
     ELSE timers' = timers
  /\ frame' = Commit(frame, generatedHtml, ~fullScreenPreview, viewMode)
  /\ loads' = CommitLoads(loads, frame')
  /\ clicks' = clicks + 1
  /\ UNCHANGED <<messages, input, loading, isStreaming, conversationId, generatedHtml,
                 viewMode, now, exch, urlLive, nextUrl, nrec, lastOp, version>>

\* The Render / Code buttons of the modal.
setViewMode(m) ==
  /\ ~Busy
  /\ clicks < MaxClicks
  /\ fullScreenPreview
  /\ m # viewMode
  /\ viewMode' = m
  /\ frame' = Commit(frame, generatedHtml, fullScreenPreview, m)
  /\ loads' = CommitLoads(loads, frame')
  /\ clicks' = clicks + 1
  /\ UNCHANGED <<messages, input, loading, isStreaming, conversationId, generatedHtml,
                 fullScreenPreview, now, exch, timers, urlLive, nextUrl, nrec, lastOp, version>>

\* ------------------------------------------------------------- specifications
\* The chunk ends where a record ends.
AtRecordEnd(e, k) == k <= Len(exch[e].wire) /\ exch[e].wire[k] = NL

\* No refresh callback is pending.
NoRefreshPending == \A n \in DOMAIN timers : timers[n].kind = "revoke"

\* The session.  The clock may stand still between two reads, the request
\* and the stream may fail at any point, the server writes any record, and
\* the transport delivers one or several whole records per chunk.  The
\* preview stays closed and no iframe assignment throws.
Next ==
  \/ \E id \in DateNow : sendMessage(id)
  \/ \E v \in Inputs : TypeInput(v)
  \/ \E e \in DOMAIN exch, id \in DateNow : FetchResolve(e, id)
  \/ \E e \in DOMAIN exch, id \in DateNow : FetchFail(e, id)
  \/ \E e \in DOMAIN exch, kind \in RecordKinds, i \in EvIds : ServerEmit(e, kind, i)
  \/ \E e \in DOMAIN exch : ServerClose(e)
  \/ \E e \in DOMAIN exch, k \in 1..(4 * MaxRecords) :
       AtRecordEnd(e, k) /\ ReadChunk(e, k)
  \/ \E e \in DOMAIN exch : ProcessLine(e)
  \/ \E e \in DOMAIN exch : ReadDone(e)
  \/ \E e \in DOMAIN exch, id \in DateNow : ReadError(e, id)
  \/ FireTimer(AllOk)

Spec == Init /\ [][Next]_vars

\* The session with a transport that does not hang and an event loop that
\* runs what is ready: a pending fetch settles, an open response is ended or
\* broken, and the continuations of the read loop run.
SpecLive ==
  /\ Spec
  /\ WF_vars(\E e \in DOMAIN exch, id \in DateNow : FetchResolve(e, id) \/ FetchFail(e, id))
  /\ WF_vars(\E e \in DOMAIN exch : ServerClose(e) \/ \E id \in DateNow : ReadError(e, id))
  /\ WF_vars(\E e \in DOMAIN exch, k \in 1..(4 * MaxRecords) :
               AtRecordEnd(e, k) /\ ReadChunk(e, k))
  /\ WF_vars(\E e \in DOMAIN exch : ProcessLine(e))
  /\ WF_vars(\E e \in DOMAIN exch : ReadDone(e))

\* The decoder.  The transport cuts the response anywhere, also inside a
\* record.  The clock advances between reads and the stream does not fail.
NextChunks ==
  \/ \E id \in DateLater : sendMessage(id)
  \/ \E v \in Inputs : TypeInput(v)
  \/ \E e \in DOMAIN exch, id \in DateLater : FetchResolve(e, id)
  \/ \E e \in DOMAIN exch, kind \in RecordKinds, i \in EvIds : ServerEmit(e, kind, i)
  \/ \E e \in DOMAIN exch : ServerClose(e)
  \/ \E e \in DOMAIN exch, k \in 1..(4 * MaxRecords) : ReadChunk(e, k)
  \/ \E e \in DOMAIN exch : ProcessLine(e)
  \/ \E e \in DOMAIN exch : ReadDone(e)
  \/ FireTimer(AllOk)

SpecChunks == Init /\ [][NextChunks]_vars

\* The preview.  The server writes artifact records and ends a response with
\* its complete; each chunk is one record.  The user opens and closes the
\* full-screen preview and switches its view at any time, but types and
\* sends a message only after the pending refreshes ran (a person is slower
\* than 100 ms).  An assignment to iframe.src may throw.
ArtifactEvents == {3, 4, 5}

NextSurface ==
  \/ NoRefreshPending /\ \E id \in DateLater : sendMessage(id)
  \/ NoRefreshPending /\ \E v \in Inputs : TypeInput(v)
  \/ \E e \in DOMAIN exch, id \in DateLater : FetchResolve(e, id)
  \/ \E e \in DOMAIN exch, i \in ArtifactEvents :
       ~exch[e].served /\ ServerEmit(e, "event", i)
  \/ \E e \in DOMAIN exch : ServerClose(e)
  \/ \E e \in DOMAIN exch : AtRecordEnd(e, 4) /\ ReadChunk(e, 4)
  \/ \E e \in DOMAIN exch : ProcessLine(e)
  \/ \E e \in DOMAIN exch : ReadDone(e)
  \/ \E o \in Outcomes : FireTimer(o)
  \/ toggleFullScreenPreview
  \/ \E m \in {"render", "code"} : setViewMode(m)

SpecSurface == Init /\ [][NextSurface]_vars

\* The iframes as consumers.  As in the preview, without the view switch and
\* without throwing assignments; an iframe that was given a blob URL takes
\* its own time to load the document and tells nobody when it is done.
NextLoad ==
  \/ NoRefreshPending /\ \E id \in DateLater : sendMessage(id)
  \/ NoRefreshPending /\ \E v \in Inputs : TypeInput(v)
  \/ \E e \in DOMAIN exch, id \in DateLater : FetchResolve(e, id)
  \/ \E e \in DOMAIN exch, i \in ArtifactEvents :
       ~exch[e].served /\ ServerEmit(e, "event", i)
  \/ \E e \in DOMAIN exch : ServerClose(e)
  \/ \E e \in DOMAIN exch : AtRecordEnd(e, 4) /\ ReadChunk(e, 4)
  \/ \E e \in DOMAIN exch : ProcessLine(e)
  \/ \E e \in DOMAIN exch : ReadDone(e)
  \/ FireTimer(AllOk)
  \/ toggleFullScreenPreview
  \/ \E s \in Surfaces : IframeLoaded(s)

SpecLoad == Init /\ [][NextLoad]_vars

\* The render as a task of its own.  The state a pass of the line loop sets
\* is rendered by a later task that React schedules; a timer callback that is
\* due may run before it.  The user acts on what is rendered.
NextRender ==
  \/ Rendered /\ NoRefreshPending /\ \E id \in DateLater : sendMessage(id)
  \/ Rendered /\ NoRefreshPending /\ \E v \in Inputs : TypeInput(v)
  \/ \E e \in DOMAIN exch, id \in DateLater : FetchResolve(e, id)
  \/ \E e \in DOMAIN exch, i \in ArtifactEvents :
       ~exch[e].served /\ ServerEmit(e, "event", i)
  \/ \E e \in DOMAIN exch : ServerClose(e)
  \/ \E e \in DOMAIN exch : AtRecordEnd(e, 4) /\ ReadChunk(e, 4)
  \/ \E e \in DOMAIN exch : ProcessLineLate(e)
  \/ \E e \in DOMAIN exch : ReadDone(e)
  \/ FireTimer(AllOk)
  \/ Render

SpecRender == Init /\ [][NextRender]_vars

\* ------------------------------------------------------------- claims
InFlightSet == {e \in DOMAIN exch : InFlight(e)}
UserCount(msgs) == Cardinality({n \in DOMAIN msgs : msgs[n].role = "user"})
AssistantOf(e) == {n \in DOMAIN messages : messages[n].ex = e /\ messages[n].role = "assistant"}
Consumed(e) == exch[e].wire = <<>> /\ exch[e].lines = <<>>

\* C1: at most one sendMessage invocation is between its fetch and its
\* finally at any time, and while one is, no step opens a request, appends a
\* user message or (by opening one) touches the artifact: a send invoked
\* then returns at its guard.
C1_SendSerialized ==
  /\ [](Cardinality(InFlightSet) <= 1)
  /\ [][InFlightSet # {} =>
          /\ Len(exch') = Len(exch)
          /\ UserCount(messages') = UserCount(messages)]_vars
  /\ [][Len(exch') # Len(exch) => generatedHtml' = generatedHtml]_vars

\* A second invocation was accepted after the first returned, it is reading
\* its stream, and a send invoked now is rejected.
C1_Witness ==
  /\ Len(exch) = 2
  /\ ~InFlight(1)
  /\ exch[2].pc = "reading"
  /\ SendRejected
  /\ UserCount(messages) = 2

\* C2: when a valid response (well-formed event records, none after a complete)
\* has been read to its end, transcript, artifact payload and conversationId
\* are what they are when each record arrives as one chunk, however the
\* transport cut the response.
C2_ChunkInvariance ==
  \A e \in DOMAIN exch :
    (exch[e].pc = "reading" /\ exch[e].closed /\ Consumed(e) /\ exch[e].valid) =>
      [messages |-> messages, generatedHtml |-> generatedHtml,
       conversationId |-> conversationId] = exch[e].ref

\* C3: once the line loop applied a complete, the invocation is over (phase
\* Idle) and the transcript holds exactly one assistant message of that
\* exchange, with the complete's final_text and is_ui.
C3_CompleteIsFinal ==
  \A e \in DOMAIN exch :
    exch[e].applied # 0 =>
      /\ ~InFlight(e)
      /\ Cardinality(AssistantOf(e)) = 1
      /\ \A n \in AssistantOf(e) :
           /\ messages[n].content = Events[exch[e].applied].text
           /\ messages[n].ui = Events[exch[e].applied].ui

\* C4: a step in which an invocation fails (fetch or read) appends exactly
\* one message, the assistant's error notice, at the end of the transcript,
\* leaves loading and isStreaming false, and opens no request.
C4_FailureSurfaced ==
  [][\A e \in DOMAIN exch :
       (InFlight(e) /\ exch'[e].pc = "failed") =>
         /\ Len(messages') = Len(messages) + 1
         /\ SubSeq(messages', 1, Len(messages)) = messages
         /\ messages'[Len(messages')].role = "assistant"
         /\ messages'[Len(messages')].content = ErrNotice
         /\ ~loading' /\ ~isStreaming'
         /\ Len(exch') = Len(exch)
         /\ \A f \in DOMAIN exch : exch'[f].pc \notin {"fetching", "reading"}]_vars

\* The stream broke after a text_chunk had been applied: the placeholder
\* keeps its text and the error notice follows it.
C4_Witness ==
  \E e \in DOMAIN exch :
    /\ exch[e].pc = "failed"
    /\ lastOp = "readerror"
    /\ Len(messages) = 3
    /\ messages[2].content = "t1"
    /\ messages[3].content = ErrNotice
    /\ ~loading /\ ~isStreaming

\* C5: when no refresh callback is pending, the iframes that show a payload
\* show the same one, the current artifact payload.
C5_SurfacesAgree ==
  NoRefreshPending =>
    \A s \in Surfaces :
      frame[s] \notin {"unmounted", "blank"} => frame[s] = generatedHtml

\* C6: whenever the full-screen iframe is mounted and still empty while an
\* artifact exists, a refresh that will fill it is pending.
C6_MountedGetsBound ==
  (frame["full"] = "blank" /\ Truthy(generatedHtml)) =>
    \E n \in DOMAIN timers : timers[n].kind \in {"html", "complete", "toggle"}

\* C7: every blob URL created and not yet revoked has exactly one revoke
\* callback pending, and every pending revoke is of such a URL.
C7_HandleReleasedOnce ==
  /\ \A u \in urlLive :
       Cardinality({n \in DOMAIN timers : timers[n] = RevokeTimer(u)}) = 1
  /\ \A n \in DOMAIN timers : timers[n].kind = "revoke" => timers[n].url \in urlLive

\* C8: once conversationId is non-empty no step changes it.
C8_ConversationIdImmutable ==
  [][conversationId # "" => conversationId' = conversationId]_vars

\* C9: no two messages of the transcript have the same id.
C9_UniqueIds ==
  \A m, n \in DOMAIN messages : m # n => messages[m].id # messages[n].id

\* A line the loop has nothing to apply from, told from the text of the line.
BadLine(line) ==
  \/ ~StartsWithData(line)
  \/ JSONparse(Slice6(line)) = 0
  \/ Events[JSONparse(Slice6(line))].type
        \notin {"text_chunk", "html_chunk", "html_complete", "complete"}

\* C10: a pass of the line loop over a line without the marker, a line
\* whose JSON does not parse, or a payload of an unrecognized type changes
\* nothing but the loop's position: the rest of the chunk and of the
\* response are still to be processed.
C10_BadLinesSkipped ==
  [][\A e \in DOMAIN exch :
       (exch[e].lines # <<>> /\ BadLine(Head(exch[e].lines))) =>
         /\ UNCHANGED <<messages, generatedHtml, conversationId, loading, isStreaming,
                        timers, frame>>
         /\ exch'[e] = [exch[e] EXCEPT !.lines = Tail(@)]]_vars

\* A line whose JSON did not parse was passed over and the next line of the
\* chunk, a text_chunk, is about to be applied.
C10_Witness ==
  \E e \in DOMAIN exch :
    /\ lastOp = "throw"
    /\ exch[e].lines # <<>>
    /\ LineKind(Head(exch[e].lines)) = "text"

\* A line that carries an artifact write, told from the text of the line.
ArtifactLine(line) ==
  /\ StartsWithData(line)
  /\ JSONparse(Slice6(line)) # 0
  /\ LET d == Events[JSONparse(Slice6(line))]
     IN  \/ d.type \in {"html_chunk", "html_complete"}
         \/ d.type = "complete" /\ d.html \notin {"", "absent"}

C12_NothingAfterComplete ==
  [][\A e \in DOMAIN exch :
       (exch[e].applied # 0 /\ exch[e].pc = "reading" /\ exch'[e].pc = "reading") =>
         UNCHANGED <<messages, generatedHtml, conversationId>>]_vars

\* C13: the text of a chunk behind its last newline (the last element of
\* chunk.split) has no terminator yet; the pass of the line loop over it does
\* not hand it to JSON.parse, which the loop does with every line that starts
\* with the marker.
C13_NoParseBeforeTerminator ==
  [][\A e \in DOMAIN exch :
       (Len(exch[e].lines) = 1 /\ exch'[e].lines = <<>>) =>
         ~StartsWithData(exch[e].lines[1])]_vars

\* C14: an iframe that is loading its document from a blob URL loads from a
\* URL that has not been revoked.
C14_HandleValidWhileLoading ==
  \A s \in Surfaces : loads[s] # 0 => loads[s] \in urlLive

C16_NoUpdateDropped ==
  (Rendered /\ NoRefreshPending) => frame["inline"] # "blank"

\* The positions in a sequence of payloads that hold one of the given types,
\* and the last of a set of positions.
OfType(sq, types) == {n \in DOMAIN sq : Events[sq[n]].type \in types}
LastPos(S) == CHOOSE n \in S : \A m \in S : m <= n

\* C17: when every record written so far has been read and none of them is a
\* complete, the placeholder's content is the accumulated_text of the last
\* text_chunk written (empty if none), its flag tells whether an html_chunk
\* or html_complete was written, and generatedHtml is the payload of the last
\* of these.
C17_ArrivalOrder ==
  \A e \in DOMAIN exch :
    (exch[e].pc = "reading" /\ Consumed(e) /\ OfType(exch[e].sent, {"complete"}) = {}) =>
      LET sq == exch[e].sent
          T == OfType(sq, {"text_chunk"})
          H == OfType(sq, {"html_chunk", "html_complete"})
      IN  /\ Cardinality(AssistantOf(e)) = 1
          /\ \A n \in AssistantOf(e) :
               /\ messages[n].content = IF T = {} THEN "" ELSE Events[sq[LastPos(T)]].text
               /\ messages[n].ui = (H # {})
          /\ H # {} => generatedHtml = Events[sq[LastPos(H)]].html

\* Two text_chunks were written, t2 then t1, and an invocation read both:
\* the placeholder holds t1.
C17_Witness ==
  \E e \in DOMAIN exch :
    /\ exch[e].pc = "reading"
    /\ Consumed(e)
    /\ exch[e].sent = <<2, 1>>
    /\ \A n \in AssistantOf(e) : messages[n].content = "t1"

\* C18: a pass of the line loop of an invocation leaves the transcript's
\* length and order as they are and changes no message but the invocation's
\* placeholder; of that one it changes neither id nor role.
C18_OnlyPlaceholderChanges ==
  [][\A e \in DOMAIN exch :
       exch[e].lines # <<>> =>
         /\ Len(messages') = Len(messages)
         /\ \A n \in DOMAIN messages :
              /\ messages'[n].id = messages[n].id
              /\ messages'[n].role = messages[n].role
              /\ n \notin AssistantOf(e) => messages'[n] = messages[n]]_vars

\* C19: loading and isStreaming are set exactly while a sendMessage
\* invocation is between its fetch and its finally, and with a transport that
\* ends or breaks every response they are cleared again.
C19_ReturnsToIdle ==
  /\ []((loading \/ isStreaming) <=> InFlightSet # {})
  /\ [](loading <=> isStreaming)
  /\ (loading \/ isStreaming) ~> (~loading /\ ~isStreaming)

\* One invocation failed and a later one read its response to the end; the
\* page is idle.
C19_Witness ==
  /\ Len(exch) = 2
  /\ exch[1].pc = "failed"
  /\ exch[2].pc = "done"
  /\ lastOp = "done"
  /\ ~loading /\ ~isStreaming

\* C20: the step in which reader.read() reports done for a response that
\* carried no complete appends nothing (no error notice), leaves the
\* invocation's placeholder as the one assistant message of the exchange, with
\* the accumulated_text of the last text_chunk (empty if none), leaves
\* conversationId what it was when the message was sent, and clears loading
\* and isStreaming.
C20_SilentEnd ==
  [][\A e \in DOMAIN exch :
       (/\ exch[e].pc = "reading" /\ exch'[e].pc # "reading" /\ lastOp' = "done"
        /\ OfType(exch[e].sent, {"complete"}) = {}) =>
         LET sq == exch[e].sent
             T == OfType(sq, {"text_chunk"})
         IN  /\ exch'[e].pc = "done"
             /\ messages' = messages
             /\ Cardinality(AssistantOf(e)) = 1
             /\ \A n \in AssistantOf(e) :
                  messages[n].content = IF T = {} THEN "" ELSE Events[sq[LastPos(T)]].text
             /\ conversationId' = exch[e].reqConv
             /\ ~loading' /\ ~isStreaming']_vars

\* A response with one text_chunk (text t2, conversation_id c2) ended without
\* a complete: the placeholder holds t2 and conversationId is still empty.
C20_Witness ==
  \E e \in DOMAIN exch :
    /\ exch[e].pc = "done"
    /\ exch[e].applied = 0
    /\ lastOp = "done"
    /\ \E n \in AssistantOf(e) : messages[n].content = "t2"
    /\ conversationId = ""
    /\ ~loading /\ ~isStreaming

\* C21: generatedHtml changes in no step but a pass of the line loop over
\* an html_chunk, an html_complete or a complete with a non-empty
\* html_content: not when a message is sent, not on a text_chunk, a complete
\* without payload or a line that is skipped, not when the request or the
\* stream fails, not at the end of the stream.
C21_ArtifactFrame ==
  [][(\A e \in DOMAIN exch :
        ~(exch[e].lines # <<>> /\ ArtifactLine(Head(exch[e].lines)))) =>
       generatedHtml' = generatedHtml]_vars

\* The first exchange produced the artifact h1 and ended; the second one
\* ended with a complete whose html_content is empty: the artifact is still h1.
C21_Witness ==
  /\ Len(exch) = 2
  /\ exch[1].pc = "done"
  /\ exch[2].pc = "done"
  /\ exch[2].applied = 7
  /\ generatedHtml = "h1"

====
